---- MODULE Spec2Model ----
(***************************************************************************)
(* A model of rust-module/src/trie.rs: the pointer-style radix tree of     *)
(* TrieBuilder, its flattening into CompactNode records and a label        *)
(* buffer, compress_labels, the reader (contains / suggest) and the byte   *)
(* image (to_bytes / from_bytes).                                          *)
(*                                                                         *)
(* A Rust &str / String is modelled by the sequence of its UTF-8 bytes, a  *)
(* char by the bytes of its encoding (UTF-8 keeps code point order, so     *)
(* char comparison is byte-lexicographic comparison of encodings).         *)
(* Vec indices are 0-based in the code; a Vec v is a sequence here and     *)
(* v[i] of the code is v[i + 1].                                           *)
(***************************************************************************)
EXTENDS Integers, Sequences, FiniteSets, TLC

\* ------------------------------------------------------------------ bounds
MaxInserts == 3
MaxWordLen == 3
MaxK == 2
LongSlack == 2
MaxImgNodes == 1
Window == 2
MaxKids == 2

\* ------------------------------------------------------- program constants
COMPACT_NONE == 8388607
MAX_LABEL_LEN == 127
RESOLVE_DEPTH_CAP == 1000

\* ------------------------------------------------------------- input sets
\* "a" and two two-byte characters that share their lead byte:
\* U+00E8 (C3 A8) and U+00E9 (C3 A9).
Alphabet == {<<97>>, <<195, 168>>, <<195, 169>>}

RECURSIVE StringsOfLen(_)
StringsOfLen(n) ==
    IF n = 0 THEN {<<>>}
    ELSE UNION {{c \o s : s \in StringsOfLen(n - Len(c))} :
                c \in {c \in Alphabet : Len(c) <= n}}

StringsUpTo(n) == UNION {StringsOfLen(m) : m \in 0..n}

Words == StringsUpTo(MaxWordLen)
Keys == StringsUpTo(MaxWordLen)
Prefixes == StringsUpTo(MaxWordLen - 1)

\* ------------------------------------------------------- bytes and strings
Min(x, y) == IF x <= y THEN x ELSE y

DropFirst(s, n) == SubSeq(s, n + 1, Len(s))
TakeFirst(s, n) == SubSeq(s, 1, n)

\* s1.zip(s2).take_while(|(a, b)| a == b).count(): the positions before
\* the first one at which the two differ (or at which one ends).
CommonPrefixLen(s1, s2) ==
    LET m == Min(Len(s1), Len(s2))
        differ == {i \in 1..m : s1[i] # s2[i]}
    IN IF differ = {} THEN m
       ELSE (CHOOSE i \in differ : \A j \in differ : i <= j) - 1

\* Faulty variant of StartsWith: only the overlapping bytes are compared.
StartsWithOverlap(s, p) ==
    TakeFirst(s, Min(Len(s), Len(p))) = TakeFirst(p, Min(Len(s), Len(p)))

\* slice::starts_with / str::starts_with
StartsWith(s, p) == Len(p) <= Len(s) /\ TakeFirst(s, Len(p)) = p

\* Faulty variant of LexLess: the order is descending.
LexGreater(x, y) ==
    LET n == CommonPrefixLen(x, y)
    IN IF n = Len(x) THEN FALSE
       ELSE IF n = Len(y) THEN TRUE
       ELSE x[n + 1] > y[n + 1]

\* Ord::cmp(x, y) == Less on byte strings: at the first position where they
\* differ the byte of x is smaller, or x ends there and y does not.
LexLess(x, y) ==
    LET n == CommonPrefixLen(x, y)
    IN IF n = Len(y) THEN FALSE
       ELSE IF n = Len(x) THEN TRUE
       ELSE x[n + 1] < y[n + 1]

IsContinuation(byte) == byte >= 128 /\ byte < 192

Utf8Width(byte) ==
    IF byte < 128 THEN 1 ELSE IF byte < 224 THEN 2 ELSE IF byte < 240 THEN 3 ELSE 4

\* str::is_char_boundary, which decides whether s[i..] panics.
IsCharBoundary(s, i) ==
    \/ i = 0
    \/ i = Len(s)
    \/ i < Len(s) /\ ~IsContinuation(s[i + 1])

\* s.chars().next().unwrap() for a non-empty s.
FirstChar(s) == TakeFirst(s, Min(Utf8Width(s[1]), Len(s)))

\* s.chars(), each char as its encoding.  A long string is cut at a char
\* boundary near its middle and the halves decoded apart.
RECURSIVE Chars(_)
Chars(s) ==
    IF s = <<>> THEN <<>>
    ELSE IF Len(s) <= 8
         THEN <<FirstChar(s)>> \o Chars(DropFirst(s, Len(FirstChar(s))))
         ELSE LET mid == CHOOSE i \in (Len(s) \div 2)..(Len(s) \div 2 + 3) :
                            IsCharBoundary(s, i)
              IN Chars(TakeFirst(s, mid)) \o Chars(DropFirst(s, mid))

\* Iterator::rev
Reverse(s) == [i \in 1..Len(s) |-> s[Len(s) - i + 1]]

\* Ord::cmp(x, y) == Less on sequences of chars.
LessChars(x, y) ==
    LET n == CommonPrefixLen(x, y)
    IN IF n = Len(y) THEN FALSE
       ELSE IF n = Len(x) THEN TRUE
       ELSE LexLess(x[n + 1], y[n + 1])

RECURSIVE Flatten(_)
Flatten(ss) == IF ss = <<>> THEN <<>> ELSE Head(ss) \o Flatten(Tail(ss))

\* ------------------------------------------------------------- the builder
\* The tree of Node values owned by TrieBuilder.root: a function from the
\* path of HashMap keys leading to a node (<<>> is the root) to the node's
\* prefix and is_leaf.  node.children is the set of paths one key longer.
NewNode(prefix, is_leaf) == [prefix |-> prefix, is_leaf |-> is_leaf]

TrieBuilderNew == (<<>> :> NewNode(<<>>, FALSE))

IsUnder(q, p) == Len(q) > Len(p) /\ TakeFirst(q, Len(p)) = p

ChildPaths(t, p) == {q \in DOMAIN t : Len(q) = Len(p) + 1 /\ IsUnder(q, p)}

\* Case 3 of insert: split the edge into child `key` after common_len bytes.
SplitEdge(t, key, remaining_key, common_len) ==
    LET child == t[key]
        child_suffix == DropFirst(child.prefix, common_len)
        input_suffix == DropFirst(remaining_key, common_len)
        split_key == Append(key, FirstChar(child_suffix))
        \* split_node takes the old children: every path under key moves
        \* under split_key.
        moved == {q \in DOMAIN t : IsUnder(q, key)}
        Moved(q) == split_key \o DropFirst(q, Len(key))
        kept == {q \in DOMAIN t : q # key /\ ~IsUnder(q, key)}
        afterSplit ==
            [q \in kept \cup {key, split_key} \cup {Moved(q) : q \in moved} |->
                IF q \in kept THEN t[q]
                ELSE IF q = key THEN NewNode(TakeFirst(child.prefix, common_len), FALSE)
                ELSE IF q = split_key THEN NewNode(child_suffix, child.is_leaf)
                ELSE t[key \o DropFirst(q, Len(split_key))]]
    IN IF input_suffix # <<>>
       THEN LET input_key == Append(key, FirstChar(input_suffix))
                \* HashMap::insert replaces an entry of the same key, with
                \* the subtree it owns.
                rest == {q \in DOMAIN afterSplit : q # input_key /\ ~IsUnder(q, input_key)}
            IN [q \in rest \cup {input_key} |->
                    IF q = input_key THEN NewNode(input_suffix, TRUE) ELSE afterSplit[q]]
       ELSE [afterSplit EXCEPT ![key].is_leaf = TRUE]

\* Faulty variant of MarkIfConsumed: is_leaf is flipped instead of set.
MarkFlips(t, key, rest) ==
    IF rest = <<>> THEN [t EXCEPT ![key].is_leaf = ~@] ELSE t

\* Case 2 of insert: the whole child prefix matched; the node is marked as
\* a word end when the key is used up.
MarkIfConsumed(t, key, rest) ==
    IF rest = <<>> THEN [t EXCEPT ![key].is_leaf = TRUE] ELSE t

\* The while loop of insert, from current_node (a path) and remaining_key.
\* panic: a slice at a byte index that is no char boundary.
RECURSIVE InsertLoop(_, _, _)
InsertLoop(t, current_node, remaining_key) ==
    IF remaining_key = <<>> THEN [tree |-> t, panic |-> FALSE]
    ELSE
      LET first_char == FirstChar(remaining_key)
          key == Append(current_node, first_char)
      IN IF key \in DOMAIN t
         THEN LET common_len == CommonPrefixLen(t[key].prefix, remaining_key)
              IN IF common_len = Len(t[key].prefix)
                 THEN IF ~IsCharBoundary(remaining_key, common_len)
                      THEN [tree |-> t, panic |-> TRUE]
                      ELSE LET rest == DropFirst(remaining_key, common_len)
                           IN InsertLoop(MarkIfConsumed(t, key, rest), key, rest)
                 ELSE IF \/ ~IsCharBoundary(t[key].prefix, common_len)
                         \/ ~IsCharBoundary(remaining_key, common_len)
                      THEN [tree |-> t, panic |-> TRUE]
                      ELSE [tree |-> SplitEdge(t, key, remaining_key, common_len),
                            panic |-> FALSE]
         ELSE [tree |-> [q \in DOMAIN t \cup {key} |->
                            IF q = key THEN NewNode(remaining_key, TRUE) ELSE t[q]],
               panic |-> FALSE]

insert(t, word) == InsertLoop(t, <<>>, word)

\* -------------------------------------------------------- the compact node
\* CompactNode: label_start and the fields of `packed` (first_child in
\* bits 0..22, label_len in bits 23..29, is_terminal bit 30,
\* has_next_sibling bit 31).  The fields are kept apart; PackedBytes below
\* gives the 32-bit word they form.
CompactNodeNew(label_start, first_child, label_len, is_terminal, has_next_sibling) ==
    [label_start |-> label_start,
     first_child |-> first_child % (COMPACT_NONE + 1),
     label_len |-> label_len % (MAX_LABEL_LEN + 1),
     is_terminal |-> is_terminal,
     has_next_sibling |-> has_next_sibling]

\* Faulty variant of SetFirstChild: the two flag bits are cleared with the
\* old child index.
SetFirstChildDropsFlags(node, start_child_idx) ==
    [node EXCEPT !.first_child = start_child_idx,
                 !.is_terminal = FALSE,
                 !.has_next_sibling = FALSE]

\* nodes[parent_idx].packed = (parent_packed & !0x007FFFFF) | start_child_idx
\* for start_child_idx <= 0x007FFFFF (guarded by the caller).
SetFirstChild(node, start_child_idx) ==
    [node EXCEPT !.first_child = start_child_idx]

\* ------------------------------------------------------------ compression
\* compress_labels on unique-string ids 1..U (the code's ids are 0..U-1).

\* The label slice of a node before compression.
LabelSlice(labels, node) ==
    SubSeq(labels, node.label_start + 1, node.label_start + node.label_len)

\* First loop: unique_strings in order of first occurrence.
RECURSIVE UniqueStrings(_, _)
UniqueStrings(strs, acc) ==
    IF strs = <<>> THEN acc
    ELSE IF \E j \in 1..Len(acc) : acc[j] = Head(strs)
         THEN UniqueStrings(Tail(strs), acc)
         ELSE UniqueStrings(Tail(strs), Append(acc, Head(strs)))

IdOf(unique_strings, s) == CHOOSE j \in 1..Len(unique_strings) : unique_strings[j] = s

SortedIndices(unique_strings) ==
    SortSeq([j \in 1..Len(unique_strings) |-> j],
            LAMBDA x, y : LexLess(unique_strings[x], unique_strings[y]))

\* Prefix folding over adjacent pairs of sorted_indices, from position i.
RECURSIVE PrefixFold(_, _, _, _)
PrefixFold(us, sorted, i, st) ==
    IF i >= Len(sorted) THEN st
    ELSE LET small_id == sorted[i]
             large_id == sorted[i + 1]
         IN IF StartsWith(us[large_id], us[small_id])
            THEN PrefixFold(us, sorted, i + 1,
                    [redirects |-> [st.redirects EXCEPT ![small_id] = <<large_id, 0>>],
                     is_active |-> [st.is_active EXCEPT ![small_id] = FALSE]])
            ELSE PrefixFold(us, sorted, i + 1, st)

ActiveIndices(us, is_active) ==
    LET RECURSIVE Filter(_)
        Filter(j) == IF j > Len(us) THEN <<>>
                     ELSE (IF is_active[j] THEN <<j>> ELSE <<>>) \o Filter(j + 1)
    IN SortSeq(Filter(1),
               LAMBDA x, y : LessChars(Reverse(Chars(us[x])), Reverse(Chars(us[y]))))

\* s_large.chars().rev().zip(s_small.chars().rev()).all(|(a, b)| a == b)
ZipRevAllEqual(s_large, s_small) ==
    LET rl == Reverse(Chars(s_large))
        rs == Reverse(Chars(s_small))
    IN \A j \in 1..Min(Len(rl), Len(rs)) : rl[j] = rs[j]

\* Faulty variant of SuffixOffset: the offset is counted in chars.
SuffixOffsetInChars(s_large, s_small) == Len(Chars(s_large)) - Len(Chars(s_small))

\* (s_large.len() - s_small.len()) as u32, in bytes.
SuffixOffset(s_large, s_small) == Len(s_large) - Len(s_small)

RECURSIVE SuffixFold(_, _, _, _)
SuffixFold(us, active, i, st) ==
    IF i >= Len(active) THEN st
    ELSE LET small_id == active[i]
             large_id == active[i + 1]
         IN IF ZipRevAllEqual(us[large_id], us[small_id])
            THEN SuffixFold(us, active, i + 1,
                    [redirects |-> [st.redirects EXCEPT
                        ![small_id] = <<large_id, SuffixOffset(us[large_id], us[small_id])>>],
                     is_active |-> [st.is_active EXCEPT ![small_id] = FALSE]])
            ELSE SuffixFold(us, active, i + 1, st)

\* final_resolution[i]: follow the redirects to an active string.
RECURSIVE Resolve(_, _, _, _)
Resolve(st, curr, total_offset, depth) ==
    IF st.is_active[curr] THEN <<curr, total_offset>>
    ELSE LET next == st.redirects[curr][1]
             off == st.redirects[curr][2]
         IN IF next = curr THEN <<curr, total_offset>>
            ELSE IF depth + 1 > RESOLVE_DEPTH_CAP THEN <<next, total_offset + off>>
            ELSE Resolve(st, next, total_offset + off, depth + 1)

\* The super-buffer and root_addresses: the active strings in id order.
RECURSIVE SuperBuffer(_, _, _, _, _)
SuperBuffer(us, is_active, i, buf, addrs) ==
    IF i > Len(us) THEN [buffer |-> buf, root_addresses |-> addrs]
    ELSE IF is_active[i]
         THEN SuperBuffer(us, is_active, i + 1, buf \o us[i], Append(addrs, Len(buf)))
         ELSE SuperBuffer(us, is_active, i + 1, buf, Append(addrs, 0))

compress_labels(labels, nodes) ==
    LET strs == [i \in 1..Len(nodes) |-> LabelSlice(labels, nodes[i])]
        us == UniqueStrings(strs, <<>>)
        node_to_unique_id == [i \in 1..Len(nodes) |-> IdOf(us, strs[i])]
        st0 == [redirects |-> [j \in 1..Len(us) |-> <<j, 0>>],
                is_active |-> [j \in 1..Len(us) |-> TRUE]]
        st1 == PrefixFold(us, SortedIndices(us), 1, st0)
        st2 == SuffixFold(us, ActiveIndices(us, st1.is_active), 1, st1)
        final_resolution == [j \in 1..Len(us) |-> Resolve(st2, j, 0, 0)]
        sb == SuperBuffer(us, st2.is_active, 1, <<>>, <<>>)
    IN [nodes |-> [i \in 1..Len(nodes) |->
                     LET res == final_resolution[node_to_unique_id[i]]
                     IN [nodes[i] EXCEPT !.label_start = sb.root_addresses[res[1]] + res[2]]],
        labels |-> sb.buffer]

\* ---------------------------------------------------------------- build
\* The elements of a set in some order (children.values().collect()).
RECURSIVE SetToSeq(_)
SetToSeq(S) ==
    IF S = {} THEN <<>>
    ELSE LET q == CHOOSE q \in S : TRUE IN <<q>> \o SetToSeq(S \ {q})

\* child_list: the children of a builder node sorted by prefix.
ChildList(t, src) ==
    SortSeq(SetToSeq(ChildPaths(t, src)), LAMBDA x, y : LexLess(t[x].prefix, t[y].prefix))

\* Faulty variant of LabelTooLong: a label of exactly 127 bytes is refused.
LabelTooLongAt127(label_len) == label_len >= MAX_LABEL_LEN

\* if label_len > 127 { panic!(...) }
LabelTooLong(label_len) == label_len > MAX_LABEL_LEN

\* The for loop over child_list (step 4), from child i (0-based).
RECURSIVE PushChildren(_, _, _, _, _)
PushChildren(t, child_list, i, start_child_idx, bfs) ==
    IF i >= Len(child_list) THEN bfs
    ELSE LET child == t[child_list[i + 1]]
             label_len == Len(child.prefix)
         IN IF LabelTooLong(label_len)
            THEN [bfs EXCEPT !.err = "LabelTooLong"]
            ELSE PushChildren(t, child_list, i + 1, start_child_idx,
                    [bfs EXCEPT
                       !.labels = @ \o child.prefix,
                       !.nodes = Append(@, CompactNodeNew(Len(bfs.labels), COMPACT_NONE,
                                           label_len, child.is_leaf,
                                           i < Len(child_list) - 1)),
                       !.queue = Append(@, <<start_child_idx + i, child_list[i + 1]>>)])

\* The BFS while loop (step 2).
RECURSIVE BfsLoop(_, _)
BfsLoop(t, bfs) ==
    IF bfs.queue = <<>> \/ bfs.err # "none" THEN bfs
    ELSE LET parent_idx == Head(bfs.queue)[1]
             source_node == Head(bfs.queue)[2]
             popped == [bfs EXCEPT !.queue = Tail(@)]
         IN IF ChildPaths(t, source_node) = {} THEN BfsLoop(t, popped)
            ELSE LET start_child_idx == Len(bfs.nodes)
                 IN IF start_child_idx > COMPACT_NONE
                    THEN [bfs EXCEPT !.err = "TrieTooLarge"]
                    ELSE BfsLoop(t, PushChildren(t, ChildList(t, source_node), 0,
                            start_child_idx,
                            [popped EXCEPT !.nodes[parent_idx + 1] =
                                SetFirstChild(@, start_child_idx)]))

\* The nodes and labels as flattened, before compress_labels.
Flattened(t) ==
    IF LabelTooLong(Len(t[<<>>].prefix))
    THEN [nodes |-> <<>>, labels |-> <<>>, queue |-> <<>>, err |-> "LabelTooLong"]
    ELSE BfsLoop(t, [nodes |-> <<CompactNodeNew(0, COMPACT_NONE, Len(t[<<>>].prefix),
                                                t[<<>>].is_leaf, FALSE)>>,
                     labels |-> t[<<>>].prefix,
                     queue |-> <<<<0, <<>>>>>>,
                     err |-> "none"])

build(t) ==
    LET flat == Flattened(t)
    IN IF flat.err # "none"
       THEN [nodes |-> <<>>, labels |-> <<>>, err |-> flat.err]
       ELSE LET c == compress_labels(flat.labels, flat.nodes)
            IN [nodes |-> c.nodes, labels |-> c.labels, err |-> "none"]

\* ---------------------------------------------------------------- reader
\* A CompactRadixTrie view: [nodes, labels].  An index outside a slice is a
\* panic (outcome "oob"); a loop that revisits a position never ends
\* (outcome "hang").
CompactRadixTrieNew(nodes, labels) == [nodes |-> nodes, labels |-> labels]

\* Whether get_label(node_idx) stays inside nodes and labels.
GetLabelInBounds(v, node_idx) ==
    /\ node_idx < Len(v.nodes)
    /\ v.nodes[node_idx + 1].label_start + v.nodes[node_idx + 1].label_len <= Len(v.labels)

get_label(v, node_idx) == LabelSlice(v.labels, v.nodes[node_idx + 1])

\* The sibling loop of contains.
RECURSIVE ContainsScan(_, _, _, _)
ContainsScan(v, key, key_cursor, child_idx) ==
    IF ~GetLabelInBounds(v, child_idx)
    THEN [outcome |-> "oob", matched |-> FALSE, child_idx |-> child_idx]
    ELSE IF StartsWith(DropFirst(key, key_cursor), get_label(v, child_idx))
         THEN [outcome |-> "ok", matched |-> TRUE, child_idx |-> child_idx]
         ELSE IF v.nodes[child_idx + 1].has_next_sibling
              THEN ContainsScan(v, key, key_cursor, child_idx + 1)
              ELSE [outcome |-> "ok", matched |-> FALSE, child_idx |-> child_idx]

\* The outer loop of contains.  fuel counts the (node_idx, key_cursor)
\* positions not yet seen; the loop is deterministic, so running out of
\* them means a position repeats.
RECURSIVE ContainsLoop(_, _, _, _, _)
ContainsLoop(v, key, node_idx, key_cursor, fuel) ==
    IF node_idx >= Len(v.nodes) THEN [outcome |-> "oob", value |-> FALSE]
    ELSE IF key_cursor >= Len(key)
         THEN [outcome |-> "ok", value |-> v.nodes[node_idx + 1].is_terminal]
    ELSE IF fuel = 0 THEN [outcome |-> "hang", value |-> FALSE]
    ELSE LET child_idx == v.nodes[node_idx + 1].first_child
         IN IF child_idx = COMPACT_NONE THEN [outcome |-> "ok", value |-> FALSE]
            ELSE LET scan == ContainsScan(v, key, key_cursor, child_idx)
                 IN IF scan.outcome # "ok" THEN [outcome |-> scan.outcome, value |-> FALSE]
                    ELSE IF ~scan.matched THEN [outcome |-> "ok", value |-> FALSE]
                    ELSE ContainsLoop(v, key, scan.child_idx,
                            key_cursor + Len(get_label(v, scan.child_idx)), fuel - 1)

contains(v, key) == ContainsLoop(v, key, 0, 0, Len(v.nodes) * (Len(key) + 1))

\* collect_suggestions and the sibling loop inside it (and at the end of
\* suggest).  c is [outcome, results, buffer].
RECURSIVE collect_suggestions(_, _, _, _, _)
RECURSIVE CollectSiblings(_, _, _, _)
collect_suggestions(v, node_idx, offset, c, num_suggestions) ==
    IF Len(c.results) >= num_suggestions THEN c
    ELSE IF ~GetLabelInBounds(v, node_idx) \/ offset > Len(get_label(v, node_idx))
         THEN [c EXCEPT !.outcome = "oob"]
    ELSE LET node == v.nodes[node_idx + 1]
             remainder == DropFirst(get_label(v, node_idx), offset)
             added_len == Len(remainder)
             pushed == [c EXCEPT !.buffer = @ \o remainder]
             emitted == IF node.is_terminal
                        THEN [pushed EXCEPT !.results = Append(@, pushed.buffer)]
                        ELSE pushed
             Truncated(x) == [x EXCEPT !.buffer = TakeFirst(@, Len(@) - added_len)]
         IN IF node.is_terminal /\ Len(emitted.results) >= num_suggestions
            THEN Truncated(emitted)
            ELSE IF node.first_child = COMPACT_NONE THEN Truncated(emitted)
            ELSE LET below == CollectSiblings(v, node.first_child, emitted, num_suggestions)
                 IN IF below.outcome # "ok" THEN below ELSE Truncated(below)

CollectSiblings(v, child, c, num_suggestions) ==
    LET r == collect_suggestions(v, child, 0, c, num_suggestions)
    IN IF r.outcome # "ok" THEN r
       ELSE IF Len(r.results) >= num_suggestions THEN r
       ELSE IF v.nodes[child + 1].has_next_sibling
            THEN CollectSiblings(v, child + 1, r, num_suggestions)
            ELSE r

\* The sibling loop of the descent of suggest: "return" (with what suggest
\* returns), "descend" into child_idx, or "none" (no sibling shares a byte).
RECURSIVE SuggestScan(_, _, _, _, _, _)
SuggestScan(v, prefix, key_cursor, child_idx, buffer, num_suggestions) ==
    IF ~GetLabelInBounds(v, child_idx)
    THEN [kind |-> "return", c |-> [outcome |-> "oob", results |-> <<>>, buffer |-> buffer]]
    ELSE LET child_label == get_label(v, child_idx)
             current_key_part == DropFirst(prefix, key_cursor)
             common_len == CommonPrefixLen(child_label, current_key_part)
             extended == buffer \o TakeFirst(child_label, common_len)
             none == [outcome |-> "ok", results |-> <<>>, buffer |-> extended]
         IN IF common_len > 0
            THEN IF common_len = Len(current_key_part)
                 THEN [kind |-> "return",
                       c |-> collect_suggestions(v, child_idx, common_len, none,
                                                 num_suggestions)]
                 ELSE IF common_len = Len(child_label)
                      THEN [kind |-> "descend", child_idx |-> child_idx,
                            key_cursor |-> key_cursor + common_len, buffer |-> extended]
                      ELSE [kind |-> "return", c |-> none]
            ELSE IF v.nodes[child_idx + 1].has_next_sibling
                 THEN SuggestScan(v, prefix, key_cursor, child_idx + 1, buffer,
                                  num_suggestions)
                 ELSE [kind |-> "none"]

RECURSIVE SuggestLoop(_, _, _, _, _, _)
SuggestLoop(v, prefix, node_idx, key_cursor, buffer, num_suggestions) ==
    LET empty == [outcome |-> "ok", results |-> <<>>, buffer |-> buffer]
    IN IF node_idx >= Len(v.nodes) THEN [empty EXCEPT !.outcome = "oob"]
       ELSE IF key_cursor < Len(prefix)
       THEN LET child_idx == v.nodes[node_idx + 1].first_child
            IN IF child_idx = COMPACT_NONE THEN empty
               ELSE LET scan == SuggestScan(v, prefix, key_cursor, child_idx, buffer,
                                            num_suggestions)
                    IN IF scan.kind = "return" THEN scan.c
                       ELSE IF scan.kind = "none" THEN empty
                       ELSE SuggestLoop(v, prefix, scan.child_idx, scan.key_cursor,
                                        scan.buffer, num_suggestions)
       ELSE \* the prefix is used up at node_idx
            LET node == v.nodes[node_idx + 1]
                start == [outcome |-> "ok",
                          results |-> IF node.is_terminal THEN <<prefix>> ELSE <<>>,
                          buffer |-> prefix]
            IN IF node.first_child = COMPACT_NONE THEN start
               ELSE CollectSiblings(v, node.first_child, start, num_suggestions)

suggest(v, prefix, num_suggestions) ==
    LET c == SuggestLoop(v, prefix, 0, 0, <<>>, num_suggestions)
    IN [outcome |-> c.outcome, results |-> IF c.outcome = "ok" THEN c.results ELSE <<>>]

\* ------------------------------------------------------------ byte image
\* u32::to_le_bytes / from_le_bytes.
U32ToLe(x) == <<x % 256, (x \div 256) % 256, (x \div 65536) % 256, (x \div 16777216) % 256>>

U32FromLe(b) == b[1] + 256 * b[2] + 65536 * b[3] + 16777216 * b[4]

\* Faulty variant of PackedBytes: bit 23, the low bit of label_len, is lost.
PackedBytesNoBit23(node) ==
    <<node.first_child % 256,
      (node.first_child \div 256) % 256,
      (node.first_child \div 65536) % 128,
      (node.label_len \div 2) + (IF node.is_terminal THEN 64 ELSE 0)
                              + (IF node.has_next_sibling THEN 128 ELSE 0)>>

\* The four bytes of `packed` as laid out in memory (little-endian host).
PackedBytes(node) ==
    <<node.first_child % 256,
      (node.first_child \div 256) % 256,
      ((node.first_child \div 65536) % 128) + 128 * (node.label_len % 2),
      (node.label_len \div 2) + (IF node.is_terminal THEN 64 ELSE 0)
                            + (IF node.has_next_sibling THEN 128 ELSE 0)>>

\* first_child(), label_len(), is_terminal(), has_next_sibling() of the word
\* read back from four bytes.
PackedFields(b) ==
    [first_child |-> b[1] + 256 * b[2] + 65536 * (b[3] % 128),
     label_len |-> b[3] \div 128 + 2 * (b[4] % 64),
     is_terminal |-> (b[4] \div 64) % 2 = 1,
     has_next_sibling |-> b[4] \div 128 = 1]

NodeBytes(node) == U32ToLe(node.label_start) \o PackedBytes(node)

NodeFromBytes(b) ==
    LET f == PackedFields(SubSeq(b, 5, 8))
    IN [label_start |-> U32FromLe(SubSeq(b, 1, 4)),
        first_child |-> f.first_child,
        label_len |-> f.label_len,
        is_terminal |-> f.is_terminal,
        has_next_sibling |-> f.has_next_sibling]

NODE_SIZE == 8

to_bytes(v) ==
    U32ToLe(Len(v.nodes))
        \o Flatten([i \in 1..Len(v.nodes) |-> NodeBytes(v.nodes[i])])
        \o U32ToLe(Len(v.labels))
        \o v.labels

\* from_bytes: a slice past the end of data panics; nothing else is looked at.
from_bytes(data) ==
    LET failed == [panic |-> TRUE, trie |-> CompactRadixTrieNew(<<>>, <<>>)]
    IN IF Len(data) < 4 THEN failed
       ELSE LET node_count == U32FromLe(SubSeq(data, 1, 4))
                nodes_end == 4 + node_count * NODE_SIZE
            IN IF nodes_end > Len(data) \/ nodes_end + 4 > Len(data) THEN failed
               ELSE LET labels_count == U32FromLe(SubSeq(data, nodes_end + 1, nodes_end + 4))
                        labels_start == nodes_end + 4
                        labels_end == labels_start + labels_count
                    IN IF labels_end > Len(data) THEN failed
                       ELSE [panic |-> FALSE,
                             trie |-> CompactRadixTrieNew(
                                [i \in 1..node_count |->
                                    NodeFromBytes(SubSeq(data, 4 + (i - 1) * NODE_SIZE + 1,
                                                         4 + i * NODE_SIZE))],
                                SubSeq(data, labels_start + 1, labels_end))]

\* ------------------------------------------------------- the state machine
VARIABLES
    builder,    \* TrieBuilder.root, as the function described above
    inserted,   \* the words insert has returned from
    phase,      \* "building", "built", or "panicked"
    nodes,      \* the Vec<CompactNode> returned by build
    labels,     \* the Vec<u8> returned by build
    trie,       \* the CompactRadixTrie in use, and how it was made
    data,       \* the Vec<u8> returned by to_bytes
    call,       \* the last call made
    ret,        \* what it returned
    bfs         \* the BFS loop of build near the 23-bit limit (see FlattenStep)

vars == <<builder, inserted, phase, nodes, labels, trie, data, call, ret, bfs>>

\* arg, k: the key or prefix and the count of a query.  known: for insert,
\* whether the word had been inserted before the call (the word itself is
\* in inserted).
Call(op, arg, k, known) == [op |-> op, arg |-> arg, k |-> k, known |-> known]
NoCall == Call("none", <<>>, 0, FALSE)
NoTrie == [origin |-> "none", nodes |-> <<>>, labels |-> <<>>]

NoBfs == [len |-> 0, queue |-> <<>>, parents |-> <<>>, status |-> "idle"]

View == CompactRadixTrieNew(trie.nodes, trie.labels)

Init ==
    /\ builder = TrieBuilderNew
    /\ inserted = {}
    /\ phase = "building"
    /\ nodes = <<>>
    /\ labels = <<>>
    /\ trie = NoTrie
    /\ data = <<>>
    /\ call = NoCall
    /\ ret = [outcome |-> "ok"]
    /\ bfs = NoBfs

\* builder.insert(word)
Insert(word) ==
    /\ phase = "building"
    /\ word \in inserted \/ Cardinality(inserted) < MaxInserts
    /\ LET r == insert(builder, word)
       IN /\ builder' = r.tree
          /\ inserted' = IF r.panic THEN inserted ELSE inserted \cup {word}
          /\ phase' = IF r.panic THEN "panicked" ELSE phase
          /\ ret' = [outcome |-> IF r.panic THEN "panic" ELSE "ok"]
    /\ call' = Call("insert", <<>>, 0, word \in inserted)
    /\ UNCHANGED <<nodes, labels, trie, data, bfs>>

\* let (nodes, labels) = builder.build()
Build ==
    /\ phase = "building"
    /\ LET r == build(builder)
       IN /\ nodes' = r.nodes
          /\ labels' = r.labels
          /\ phase' = IF r.err = "none" THEN "built" ELSE "panicked"
          /\ ret' = [outcome |-> IF r.err = "none" THEN "ok" ELSE r.err]
    /\ call' = Call("build", <<>>, 0, FALSE)
    /\ UNCHANGED <<builder, inserted, trie, data, bfs>>

\* CompactRadixTrie::new(&nodes, &labels)
TrieNew ==
    /\ phase = "built"
    /\ trie = NoTrie
    /\ trie' = [origin |-> "new", nodes |-> nodes, labels |-> labels]
    /\ call' = Call("new", <<>>, 0, FALSE)
    /\ ret' = [outcome |-> "ok"]
    /\ UNCHANGED <<builder, inserted, phase, nodes, labels, data, bfs>>

\* contains and suggest take &self and change nothing, so a run makes one
\* query of a view, as its last call.  The view is one made by new or one
\* from_bytes made of bytes from outside; a view read back from the output
\* of to_bytes (origin "round_trip") is compared with the original query by
\* query in C5.
Readable ==
    /\ call.op \in {"new", "from_bytes"}
    /\ trie.origin \in {"new", "from_bytes"}

\* trie.contains(key)
Contains(key) ==
    /\ Readable
    /\ call' = Call("contains", key, 0, FALSE)
    /\ ret' = contains(View, key)
    /\ UNCHANGED <<builder, inserted, phase, nodes, labels, trie, data, bfs>>

\* trie.suggest(prefix, num_suggestions)
Suggest(prefix, num_suggestions) ==
    /\ Readable
    /\ call' = Call("suggest", prefix, num_suggestions, FALSE)
    /\ ret' = suggest(View, prefix, num_suggestions)
    /\ UNCHANGED <<builder, inserted, phase, nodes, labels, trie, data, bfs>>

\* let data = trie.to_bytes()
ToBytes ==
    /\ call.op = "new"
    /\ data' = to_bytes(View)
    /\ call' = Call("to_bytes", <<>>, 0, FALSE)
    /\ ret' = [outcome |-> "ok"]
    /\ UNCHANGED <<builder, inserted, phase, nodes, labels, trie, bfs>>

\* CompactRadixTrie::from_bytes(&data)
FromBytes ==
    /\ call.op \in {"to_bytes", "image"}
    /\ LET r == from_bytes(data)
       IN /\ trie' = IF r.panic THEN NoTrie
                     ELSE [origin |-> IF call.op = "to_bytes" THEN "round_trip"
                                      ELSE "from_bytes",
                           nodes |-> r.trie.nodes,
                           labels |-> r.trie.labels]
          /\ ret' = [outcome |-> IF r.panic THEN "panic" ELSE "ok"]
          /\ phase' = IF r.panic THEN "panicked" ELSE phase
    /\ call' = Call("from_bytes", <<>>, 0, FALSE)
    /\ UNCHANGED <<builder, inserted, nodes, labels, data, bfs>>

Next ==
    \/ \E word \in Words : Insert(word)
    \/ Build
    \/ TrieNew
    \/ \E key \in Keys : Contains(key)
    \/ \E prefix \in Prefixes, num_suggestions \in 0..MaxK : Suggest(prefix, num_suggestions)
    \/ ToBytes
    \/ FromBytes

Spec == Init /\ [][Next]_vars

\* ------------------------------------------------- long words (127 +- slack)
Repeat(byte, n) == [i \in 1..n |-> byte]

\* "a" and runs of "a" of about MAX_LABEL_LEN bytes.
LongWords ==
    {<<97>>} \cup {Repeat(97, n) :
                     n \in (MAX_LABEL_LEN - LongSlack)..(MAX_LABEL_LEN + LongSlack)}

NextLong ==
    \/ \E word \in LongWords : Insert(word)
    \/ Build
    \/ TrieNew
    \/ \E key \in LongWords : Contains(key)
    \/ \E prefix \in LongWords : Suggest(prefix, MaxK)

SpecLong == Init /\ [][NextLong]_vars

\* ------------------------------------------------- byte images from outside
ImgNode ==
    [label_start : 0..1,
     first_child : (0..MaxImgNodes) \cup {COMPACT_NONE},
     label_len : 0..1,
     is_terminal : BOOLEAN,
     has_next_sibling : BOOLEAN]

ImgTries ==
    {CompactRadixTrieNew(ns, ls) :
        ns \in UNION {[1..n -> ImgNode] : n \in 0..MaxImgNodes},
        ls \in {<<>>, <<97>>}}

\* What to_bytes writes for some node array and label buffer, and every
\* prefix of it (a file cut short).
Images == UNION {{TakeFirst(to_bytes(v), n) : n \in 0..Len(to_bytes(v))} : v \in ImgTries}

InitImage ==
    /\ builder = TrieBuilderNew
    /\ inserted = {}
    /\ phase = "built"
    /\ nodes = <<>>
    /\ labels = <<>>
    /\ trie = NoTrie
    /\ data \in Images
    /\ call = Call("image", <<>>, 0, FALSE)
    /\ ret = [outcome |-> "ok"]
    /\ bfs = NoBfs

NextImage ==
    \/ FromBytes
    \/ \E key \in {<<>>, <<97>>} : Contains(key)

SpecImage == InitImage /\ [][NextImage]_vars

\* ------------------------------------------ the BFS of build near 2^23 nodes
\* The while loop of build when nodes.len() is about COMPACT_NONE.  Only
\* what the 23-bit checks read is kept: len is nodes.len(); queue holds, for
\* each pending (index, builder node), the index and the number of children
\* of the builder node; parents records each node whose first_child was set,
\* with the block of children pushed for it.
InitLarge ==
    /\ builder = TrieBuilderNew
    /\ inserted = {}
    /\ phase = "building"
    /\ nodes = <<>>
    /\ labels = <<>>
    /\ trie = NoTrie
    /\ data = <<>>
    /\ call = NoCall
    /\ ret = [outcome |-> "ok"]
    /\ \E len \in (COMPACT_NONE - Window)..COMPACT_NONE, pending \in 1..2 :
          \E kids \in [1..pending -> 0..MaxKids] :
             bfs = [len |-> len,
                    queue |-> [i \in 1..pending |->
                                 [idx |-> len - pending + i - 1, kids |-> kids[i]]],
                    parents |-> <<>>,
                    status |-> "running"]

\* One iteration of the while loop: pop, and for a node with children check
\* start_child_idx, set the parent's first_child, push the children.
FlattenStep ==
    /\ bfs.status = "running"
    /\ bfs.queue # <<>>
    /\ LET parent == Head(bfs.queue)
           start_child_idx == bfs.len
       IN IF parent.kids = 0
          THEN bfs' = [bfs EXCEPT !.queue = Tail(@)]
          ELSE IF start_child_idx > COMPACT_NONE
          THEN bfs' = [bfs EXCEPT !.status = "TrieTooLarge"]
          ELSE \E kids \in [1..parent.kids ->
                              IF bfs.len < COMPACT_NONE + Window THEN 0..MaxKids ELSE {0}] :
                  bfs' = [bfs EXCEPT
                     !.queue = Tail(@) \o [i \in 1..parent.kids |->
                                   [idx |-> start_child_idx + i - 1, kids |-> kids[i]]],
                     !.len = @ + parent.kids,
                     !.parents = Append(@,
                         [idx |-> parent.idx,
                          node |-> SetFirstChild(
                                     CompactNodeNew(0, COMPACT_NONE, 1, FALSE, FALSE),
                                     start_child_idx),
                          start |-> start_child_idx,
                          kids |-> parent.kids])]
    /\ UNCHANGED <<builder, inserted, phase, nodes, labels, trie, data, call, ret>>

\* The queue is empty: build goes on to compress_labels and returns.
FlattenDone ==
    /\ bfs.status = "running"
    /\ bfs.queue = <<>>
    /\ bfs' = [bfs EXCEPT !.status = "done"]
    /\ UNCHANGED <<builder, inserted, phase, nodes, labels, trie, data, call, ret>>

NextLarge == FlattenStep \/ FlattenDone

SpecLarge == InitLarge /\ [][NextLarge]_vars

\* ------------------------------------------- scenario S4 (suggest mid-edge)
\* "application", "applied", and "app", "apply" beside them.
Application == <<97, 112, 112, 108, 105, 99, 97, 116, 105, 111, 110>>
Applied == <<97, 112, 112, 108, 105, 101, 100>>
App == <<97, 112, 112>>
Apply == <<97, 112, 112, 108, 121>>

ScenarioWords == {Application, Applied, App, Apply}

\* Every prefix of a scenario word.
ScenarioPrefixes ==
    UNION {{TakeFirst(w, n) : n \in 0..Len(w)} : w \in ScenarioWords}

NextS4 ==
    \/ \E word \in ScenarioWords : Insert(word)
    \/ Build
    \/ TrieNew
    \/ \E key \in ScenarioPrefixes : Contains(key)
    \/ \E prefix \in ScenarioPrefixes, num_suggestions \in {1, 10} :
          Suggest(prefix, num_suggestions)

SpecS4 == Init /\ [][NextS4]_vars

\* ----------------------------------------------------------------- claims
\* What the claims compare the program with.
Original == CompactRadixTrieNew(nodes, labels)

IsPrefixOf(p, w) == Len(p) <= Len(w) /\ SubSeq(w, 1, Len(p)) = p

Matches(W, prefix) == {w \in W : IsPrefixOf(prefix, w)}

SortedWords(S) == SortSeq(SetToSeq(S), LexLess)

Range(f) == {f[i] : i \in DOMAIN f}

\* The builder node each compact node is made from: the paths in the order
\* the BFS of build visits them.
RECURSIVE BfsOrder(_, _, _)
BfsOrder(t, order, i) ==
    IF i > Len(order) THEN order
    ELSE BfsOrder(t, order \o ChildList(t, order[i]), i + 1)

C2_SuggestIsSortedMatches ==
    (call.op = "suggest" /\ <<>> \notin inserted)
        => LET all == SortedWords(Matches(inserted, call.arg))
           IN /\ ret.outcome = "ok"
              /\ ret.results = TakeFirst(all, Min(call.k, Len(all)))
              /\ Len(ret.results) <= call.k

\* C3: insert("") marks the root terminal: the root compact node has
\* is_terminal set and contains("") is true.
C3_EmptyWordMarksRoot ==
    <<>> \in inserted
        => /\ builder[<<>>].is_leaf
           /\ phase = "built" => nodes[1].is_terminal
           /\ (call.op = "contains" /\ call.arg = <<>>) => ret.value = TRUE

\* C4: after build() every compact node's slice of the final label buffer
\* lies inside the buffer and is the prefix of the builder node the compact
\* node was made from, and label_len is what flattening stored.
C4_LabelsSurviveCompression ==
    (call.op = "build" /\ ret.outcome = "ok")
        => LET flat == Flattened(builder)
               order == BfsOrder(builder, <<<<>>>>, 1)
           IN /\ Len(nodes) = Len(order)
              /\ \A i \in 1..Len(nodes) :
                    /\ nodes[i].label_start + nodes[i].label_len <= Len(labels)
                    /\ LabelSlice(labels, nodes[i]) = builder[order[i]].prefix
                    /\ nodes[i].label_len = flat.nodes[i].label_len
                    /\ nodes[i].label_len = Len(builder[order[i]].prefix)

\* The root's empty label was folded as a prefix into a label that was then
\* folded as a suffix into a longer one.
C4_Witness ==
    /\ call.op = "build"
    /\ ret.outcome = "ok"
    /\ nodes[1].label_start > 0
    /\ \E j, k \in 1..Len(nodes) :
          /\ nodes[j].label_len > 0
          /\ nodes[j].label_start = nodes[1].label_start
          /\ nodes[k].label_start < nodes[j].label_start
          /\ nodes[k].label_start + nodes[k].label_len
                = nodes[j].label_start + nodes[j].label_len

\* C5: to_bytes() is the node count, the 8-byte records, the label length
\* and the labels (8 + 8N + L bytes), and from_bytes of it gives the same
\* nodes and labels, hence the same contains and suggest results.
C5_RoundTrip ==
    /\ call.op = "to_bytes"
          => /\ Len(data) = 8 + NODE_SIZE * Len(nodes) + Len(labels)
             /\ U32FromLe(SubSeq(data, 1, 4)) = Len(nodes)
             /\ U32FromLe(SubSeq(data, 5 + NODE_SIZE * Len(nodes),
                                 8 + NODE_SIZE * Len(nodes))) = Len(labels)
             /\ DropFirst(data, 8 + NODE_SIZE * Len(nodes)) = labels
             /\ \A i \in 1..Len(nodes) :
                   U32FromLe(SubSeq(data, 4 + NODE_SIZE * (i - 1) + 1,
                                    4 + NODE_SIZE * (i - 1) + 4))
                      = nodes[i].label_start
    /\ call.op = "from_bytes"
          => /\ ret.outcome = "ok"
             /\ trie.nodes = nodes
             /\ trie.labels = labels
             /\ \A x \in Keys : contains(View, x) = contains(Original, x)
             /\ \A p \in Prefixes, k \in 0..MaxK :
                   suggest(View, p, k) = suggest(Original, p, k)

\* A trie with a sibling block, an odd label length and a word ending at an
\* inner node was written and read back.
C5_Witness ==
    /\ call.op = "from_bytes"
    /\ trie.origin = "round_trip"
    /\ Len(suggest(View, <<>>, MaxK).results) >= 2
    /\ \E i \in 1..Len(nodes) : nodes[i].has_next_sibling /\ nodes[i].label_len % 2 = 1
    /\ \E i \in 1..Len(nodes) : nodes[i].is_terminal /\ nodes[i].first_child # COMPACT_NONE

\* insert over a sequence of words, from an empty builder.
RECURSIVE InsertAll(_, _)
InsertAll(r, ws) ==
    IF ws = <<>> \/ r.panic THEN r
    ELSE InsertAll(insert(r.tree, Head(ws)), Tail(ws))

Orders(W) == {s \in [1..Cardinality(W) -> W] : Range(s) = W}

\* C6: inserting the same set of words in another order gives a trie too,
\* and one that answers every contains(x) alike and suggests the same set
\* of words for every prefix (k at least the number of matching words).
C6_OrderIndependent ==
    (call.op = "build" /\ ret.outcome = "ok")
        => \A s \in Orders(inserted) :
              LET r == InsertAll([tree |-> TrieBuilderNew, panic |-> FALSE], s)
                  b == build(r.tree)
                  other == CompactRadixTrieNew(b.nodes, b.labels)
              IN /\ ~r.panic
                 /\ b.err = "none"
                 /\ \/ (b.nodes = nodes /\ b.labels = labels)
                    \/ /\ \A x \in Keys : contains(other, x) = contains(Original, x)
                       /\ \A q \in Keys :
                             Range(suggest(other, q, MaxInserts).results)
                                = Range(suggest(Original, q, MaxInserts).results)

\* C7: insert of a word that was inserted before leaves the builder tree
\* (prefixes, children, is_leaf) as it was, hence build() too.
C7_ReinsertIsNoOp ==
    [][(call'.op = "insert" /\ call'.known /\ phase = "building")
          => (builder' = builder /\ ret'.outcome = "ok" /\ inserted' = inserted)]_vars

\* A word was inserted again into a builder that holds three words, has
\* split an edge and has a word ending at a node with children.
C7_Witness ==
    /\ call.op = "insert"
    /\ call.known
    /\ ret.outcome = "ok"
    /\ Cardinality(inserted) >= 3
    /\ \E q \in DOMAIN builder : builder[q].is_leaf /\ ChildPaths(builder, q) # {}
    /\ \E q \in DOMAIN builder : q # <<>> /\ ~builder[q].is_leaf

\* C8: build() fails with TrieTooLarge whenever the nodes would not fit 23
\* bits: a build that ends returns at most 0x7FFFFF nodes, and a node with
\* children never gets first_child = 0x7FFFFF or children at indices that
\* do not fit.
C8_TrieTooLargeKeeps23Bits ==
    /\ bfs.status = "done" => bfs.len <= COMPACT_NONE
    /\ \A i \in 1..Len(bfs.parents) :
          /\ bfs.parents[i].node.first_child # COMPACT_NONE
          /\ bfs.parents[i].start + bfs.parents[i].kids - 1 < COMPACT_NONE

\* What from_bytes is to check of an image: both sections inside the data,
\* every label slice inside the labels, every first_child the sentinel or
\* an index of a node.
ImageValid(image) ==
    /\ Len(image) >= 4
    /\ LET N == U32FromLe(SubSeq(image, 1, 4))
       IN /\ 4 + NODE_SIZE * N + 4 <= Len(image)
          /\ LET L == U32FromLe(SubSeq(image, 5 + NODE_SIZE * N, 8 + NODE_SIZE * N))
             IN /\ 8 + NODE_SIZE * N + L <= Len(image)
                /\ \A i \in 1..N :
                      LET n == NodeFromBytes(SubSeq(image, 4 + NODE_SIZE * (i - 1) + 1,
                                                    4 + NODE_SIZE * i))
                      IN /\ n.label_start + n.label_len <= L
                         /\ n.first_child = COMPACT_NONE \/ n.first_child < N

\* C9: from_bytes gives no trie for an image that is cut short or whose
\* offsets are out of range, so contains on a trie it gave never indexes
\* outside the nodes or the labels.
C9_CorruptImageRejected ==
    /\ (call.op = "from_bytes" /\ ret.outcome = "ok") => ImageValid(data)
    /\ (call.op = "contains" /\ trie.origin = "from_bytes") => ret.outcome # "oob"

\* C10: build() fails with LabelTooLong exactly when some edge prefix of the
\* builder is longer than 127 bytes; otherwise it succeeds and stores every
\* label_len (127 included) intact; insert never fails on a long word.
C10_LabelTooLongExactly ==
    /\ call.op = "insert" => ret.outcome = "ok"
    /\ call.op = "build"
          => /\ ret.outcome = (IF \E q \in DOMAIN builder : Len(builder[q].prefix) > 127
                               THEN "LabelTooLong" ELSE "ok")
             /\ ret.outcome = "ok"
                   => LET order == BfsOrder(builder, <<<<>>>>, 1)
                      IN /\ Len(nodes) = Len(order)
                         /\ \A i \in 1..Len(nodes) :
                               /\ nodes[i].label_len = Len(builder[order[i]].prefix)
                               /\ LabelSlice(labels, nodes[i]) = builder[order[i]].prefix

\* A builder with an edge of exactly 127 bytes was built.
C10_Witness ==
    /\ call.op = "build"
    /\ ret.outcome = "ok"
    /\ \E i \in 1..Len(nodes) : nodes[i].label_len = 127
    /\ \E q \in DOMAIN builder : Len(builder[q].prefix) = 127

\* suggest("app", 10) of the trie built from the words of s, in that order.
S4Suggest(s) ==
    LET r == InsertAll([tree |-> TrieBuilderNew, panic |-> FALSE], s)
        b == build(r.tree)
    IN IF r.panic \/ b.err # "none" THEN [outcome |-> "panic", results |-> <<>>]
       ELSE suggest(CompactRadixTrieNew(b.nodes, b.labels), App, 10)

\* C11 as the scenario states it: after inserting "application" and
\* "applied" in either order and building, suggest("app", 10) returns
\* ["applied", "application"].
C11_S4_AppliedFirst ==
    (call.op = "suggest" /\ call.arg = App /\ call.k = 10
        /\ inserted = {Application, Applied})
        => /\ ret.results = <<Applied, Application>>
           /\ S4Suggest(<<Application, Applied>>).results = <<Applied, Application>>
           /\ S4Suggest(<<Applied, Application>>).results = <<Applied, Application>>

\* C11 amended: after inserting "application" and "applied" in either order
\* and building, suggest("app", 10) returns ["application", "applied"], which
\* is the ascending byte order ("c" is below "e").
C11_S4_ApplicationFirst ==
    (call.op = "suggest" /\ call.arg = App /\ call.k = 10
        /\ inserted = {Application, Applied})
        => /\ ret.outcome = "ok"
           /\ ret.results = <<Application, Applied>>
           /\ LexLess(Application, Applied)
           /\ S4Suggest(<<Application, Applied>>) = ret
           /\ S4Suggest(<<Applied, Application>>) = ret

\* suggest("app", 10) was asked of the trie of "application" and "applied":
\* the prefix ends inside the edge "appli", which has two children.
C11_Witness ==
    /\ call.op = "suggest"
    /\ call.arg = App
    /\ call.k = 10
    /\ inserted = {Application, Applied}
    /\ Len(ret.results) = 2
    /\ \E i \in 1..Len(nodes) :
          /\ LabelSlice(labels, nodes[i]) = TakeFirst(Applied, 5)
          /\ nodes[i].first_child # COMPACT_NONE
          /\ ~nodes[i].is_terminal

\* Every non-root builder node has a non-empty prefix.
NonEmptyPrefixes == \A q \in DOMAIN builder : q # <<>> => builder[q].prefix # <<>>

\* No two children of a builder node have prefixes with the same first byte.
NoSharedFirstByte ==
    \A q \in DOMAIN builder :
        \A c1, c2 \in ChildPaths(builder, q) :
            (c1 # c2 /\ builder[c1].prefix # <<>> /\ builder[c2].prefix # <<>>)
                => builder[c1].prefix[1] # builder[c2].prefix[1]

\* C12: after any sequence of inserts, at every builder node no two
\* children have prefixes that begin with the same byte, and every non-root
\* node has a non-empty prefix.
C12_SiblingsDifferInFirstByte == NonEmptyPrefixes /\ NoSharedFirstByte

\* C13: in the node array of build(), for every node p (0-based index
\* i - 1) with first_child other than the sentinel: first_child is greater
\* than p's index; the children of p's builder node are the nodes at
\* first_child, first_child + 1, ... in child_list order; each of them but
\* the last has has_next_sibling set and the last has it clear; their
\* labels are strictly ascending; and p kept the label_len and is_terminal
\* it was created with (has_next_sibling of p is covered where p is a child;
\* the root has it clear).
C13_SiblingBlocks ==
    (call.op = "build" /\ ret.outcome = "ok")
        => LET order == BfsOrder(builder, <<<<>>>>, 1)
           IN /\ Len(nodes) = Len(order)
              /\ ~nodes[1].has_next_sibling
              /\ \A i \in 1..Len(nodes) :
                    nodes[i].first_child # COMPACT_NONE
                       => LET first_child == nodes[i].first_child
                              kids == ChildList(builder, order[i])
                              n == Len(kids)
                          IN /\ first_child > i - 1
                             /\ n >= 1
                             /\ first_child + n <= Len(nodes)
                             /\ \A j \in 1..n :
                                   /\ order[first_child + j] = kids[j]
                                   /\ nodes[first_child + j].has_next_sibling = (j < n)
                             /\ \A j \in 1..(n - 1) :
                                   LexLess(LabelSlice(labels, nodes[first_child + j]),
                                           LabelSlice(labels, nodes[first_child + j + 1]))
                             /\ nodes[i].label_len = Len(builder[order[i]].prefix)
                             /\ nodes[i].is_terminal = builder[order[i]].is_leaf

\* A trie was built in which a node that has a next sibling got a block of
\* two children.
C13_Witness ==
    /\ call.op = "build"
    /\ ret.outcome = "ok"
    /\ \E i \in 2..Len(nodes) :
          /\ nodes[i].first_child # COMPACT_NONE
          /\ nodes[i].has_next_sibling
          /\ nodes[nodes[i].first_child + 1].has_next_sibling
          /\ ~nodes[nodes[i].first_child + 2].has_next_sibling

====
